---- MODULE Spec2Model ----
(***************************************************************************)
(* Model of the 50ohm HTML renderers (renderer/fifty_ohm_html_renderer.py  *)
(* and renderer/fifty_ohm_html_slide_renderer.py): the figure numbering    *)
(* pass (collect_figures) and the recursive rendering pass.                *)
(*                                                                         *)
(* A Python string is a sequence of atoms: "" is << >>, concatenation is   *)
(* \o.  Markup chunks are single atoms, "\n" is always an atom of its own. *)
(* A value that may be None is a record [some, v]: None has some = FALSE.  *)
(***************************************************************************)
EXTENDS Integers, Sequences, FiniteSets, TLC

VARIABLES
    mode,              \* "document": FiftyOhmHtmlRenderer, "slide": FiftyOhmHtmlSlideRenderer
    edition,           \* self.edition
    chapter,           \* self.chapter
    section,           \* self.section
    figure_map,        \* self.figure_map
    figure_counter,    \* self.figure_counter
    margin_id,         \* self.margin_id
    margin_anchor_id,  \* self.margin_anchor_id
    document,          \* the token tree the caller holds (with the number annotations)
    result,            \* what the last call returned
    lastOp,            \* the last call made on the renderer
    template_calls,    \* history: the (type, id, anchor) handed to render_tag_helper by the last call
    ctor,              \* history: the edition, chapter and section given to the constructor
    pass_run,          \* history: collect_figures has run for the current document
    earlier_pass       \* history: collect_figures has run for an earlier document

vars == << mode, edition, chapter, section, figure_map, figure_counter, margin_id,
           margin_anchor_id, document, result, lastOp, template_calls, ctor, pass_run,
           earlier_pass >>

-----------------------------------------------------------------------------
(* Bounds *)

\* most children of a Document root in the numbering specification
MaxChildren == 2
\* most children of a Document root in the rendering specification
MaxRenderChildren == 2
\* largest value margin_id and margin_anchor_id may reach
MaxMargin == 3

-----------------------------------------------------------------------------
(* Python values *)

None == [some |-> FALSE, v |-> << >>]

Str(s) == [some |-> TRUE, v |-> s]

\* bool(x) of a value that is None or a string
Truthy(x) == x.some /\ x.v # << >>

Digit(d) == << "0", "1", "2", "3", "4", "5", "6", "7", "8", "9" >>[d + 1]

RECURSIVE str(_)
\* str(n) of a natural number: its decimal digits
str(n) == IF n < 10 THEN << Digit(n) >> ELSE str(n \div 10) \o << Digit(n % 10) >>

EmptyMap == [k \in {} |-> << >>]

\* d[k] = v on a dict
DictSet(d, k, v) == [x \in (DOMAIN d) \cup {k} |-> IF x = k THEN v ELSE d[x]]

\* d.get(k, default)
DictGet(d, k, default) == IF k \in DOMAIN d THEN d[k] ELSE default

-----------------------------------------------------------------------------
(* Tokens: what the parser hands over.  An attribute a token class does not *)
(* have is None (getattr(child, "ref", None)).                              *)

Token(kind) ==
    [kind |-> kind, ref |-> None, name |-> None, tagtype |-> "", first |-> << >>,
     content |-> << >>, id |-> << >>, text |-> << >>, caption |-> << >>,
     header |-> FALSE, received |-> FALSE, alignment |-> "", number |-> None,
     children |-> << >>]

Document(children) == [Token("Document") EXCEPT !.children = children]

RawText(content) == [Token("RawText") EXCEPT !.content = content]

BlockComment == Token("BlockComment")

ThematicBreak == Token("ThematicBreak")

Picture(id, ref, text) ==
    [Token("Picture") EXCEPT !.id = id, !.ref = Str(ref), !.text = text]

Photo(id, ref, text) ==
    [Token("Photo") EXCEPT !.id = id, !.ref = Str(ref), !.text = text]

Table(name, caption, children) ==
    [Token("Table") EXCEPT !.name = Str(name), !.caption = caption, !.children = children]

TableBody(header, children) ==
    [Token("TableBody") EXCEPT !.header = header, !.children = children]

TableRow(children) == [Token("TableRow") EXCEPT !.children = children]

TableCell(header, alignment, children) ==
    [Token("TableCell") EXCEPT !.header = header, !.alignment = alignment,
                               !.children = children]

Tag(tagtype, children) ==
    [Token("Tag") EXCEPT !.tagtype = tagtype, !.children = children]

Qso(children) == [Token("Qso") EXCEPT !.children = children]

QsoTurn(received, children) ==
    [Token("QsoTurn") EXCEPT !.received = received, !.children = children]

References(first) == [Token("References") EXCEPT !.first = first]

-----------------------------------------------------------------------------
(* The renderer object, as the record the methods read and write *)

Self == [mode |-> mode, edition |-> edition, chapter |-> chapter, section |-> section,
         figure_map |-> figure_map, figure_counter |-> figure_counter,
         margin_id |-> margin_id, margin_anchor_id |-> margin_anchor_id,
         calls |-> << >>]

\* a constructor that does not start from an empty figure map (a map shared
\* between instances)
Mut_Construct_shared_map(m, e, c, s) ==
    [mode |-> m,
     edition |-> IF m = "slide" /\ Truthy(e) THEN Str(e.v \o << "S" >>) ELSE e,
     chapter |-> c, section |-> s,
     figure_map |-> [k \in {<< "p1" >>} |-> << "1" >>], figure_counter |-> 0,
     margin_id |-> 0, margin_anchor_id |-> 0, calls |-> << >>]

\* FiftyOhmHtmlRenderer.__init__ and FiftyOhmHtmlSlideRenderer.__init__
Construct(m, e, c, s) ==
    [mode |-> m,
     edition |-> IF m = "slide" /\ Truthy(e) THEN Str(e.v \o << "S" >>) ELSE e,
     chapter |-> c, section |-> s,
     figure_map |-> EmptyMap, figure_counter |-> 0,
     margin_id |-> 0, margin_anchor_id |-> 0, calls |-> << >>]

-----------------------------------------------------------------------------
(* The numbering pass *)

\* the hierarchical form as soon as one of the three is there ("or" for "and")
Mut_format_figure_number_any(self, counter) ==
    IF Truthy(self.edition) \/ Truthy(self.chapter) \/ Truthy(self.section)
    THEN self.edition.v \o << "-" >> \o self.chapter.v \o << "." >> \o self.section.v
         \o << "." >> \o str(counter)
    ELSE str(counter)

_format_figure_number(self, counter) ==
    IF Truthy(self.edition) /\ Truthy(self.chapter) /\ Truthy(self.section)
    THEN self.edition.v \o << "-" >> \o self.chapter.v \o << "." >> \o self.section.v
         \o << "." >> \o str(counter)
    ELSE str(counter)

IsFigure(token) == token.kind \in {"Picture", "Photo", "Table"}

\* getattr(child, "ref", None) or getattr(child, "name", None)
ref_id(child) == IF Truthy(child.ref) THEN child.ref ELSE child.name

RECURSIVE Mut_collect_figures_postorder(_, _)
\* a traversal that numbers a figure after its children instead of before them
Mut_collect_figures_postorder(self, token) ==
    LET RECURSIVE Loop(_, _, _)
        Loop(s, done, rest) ==
            IF rest = << >> THEN [self |-> s, children |-> done]
            ELSE LET r == Mut_collect_figures_postorder(s, Head(rest))
                     child == r.token
                     rid == ref_id(child)
                     numbered == IsFigure(child) /\ Truthy(rid)
                     counter == r.self.figure_counter + 1
                     hierarchical_num == _format_figure_number(r.self, counter)
                     s1 == IF numbered
                           THEN [r.self EXCEPT !.figure_counter = counter,
                                               !.figure_map = DictSet(@, rid.v, hierarchical_num)]
                           ELSE r.self
                     child1 == IF ~IsFigure(child) THEN child
                               ELSE IF numbered
                                    THEN [child EXCEPT !.number = Str(hierarchical_num)]
                                    ELSE [child EXCEPT !.number = Str(<< >>)]
                 IN Loop(s1, Append(done, child1), Tail(rest))
        l == Loop(self, << >>, token.children)
    IN [self |-> l.self, token |-> [token EXCEPT !.children = l.children]]

RECURSIVE Mut_collect_figures_number_all(_, _)
\* a traversal without the "if ref_id:" test: every figure is numbered
Mut_collect_figures_number_all(self, token) ==
    LET RECURSIVE Loop(_, _, _)
        Loop(s, done, rest) ==
            IF rest = << >> THEN [self |-> s, children |-> done]
            ELSE LET child == Head(rest)
                     rid == ref_id(child)
                     counter == s.figure_counter + 1
                     hierarchical_num == _format_figure_number(s, counter)
                     s1 == IF IsFigure(child)
                           THEN [s EXCEPT !.figure_counter = counter,
                                          !.figure_map = DictSet(@, rid.v, hierarchical_num)]
                           ELSE s
                     child1 == IF IsFigure(child)
                               THEN [child EXCEPT !.number = Str(hierarchical_num)]
                               ELSE child
                     r == Mut_collect_figures_number_all(s1, child1)
                 IN Loop(r.self, Append(done, r.token), Tail(rest))
        l == Loop(self, << >>, token.children)
    IN [self |-> l.self, token |-> [token EXCEPT !.children = l.children]]

RECURSIVE _collect_figures_recursive(_, _)
\* Returns [self, token]: the renderer and the token after the traversal of
\* token's children (left to right, each child numbered before its own children).
_collect_figures_recursive(self, token) ==
    LET RECURSIVE Loop(_, _, _)
        Loop(s, done, rest) ==
            IF rest = << >> THEN [self |-> s, children |-> done]
            ELSE LET child == Head(rest)
                     rid == ref_id(child)
                     numbered == IsFigure(child) /\ Truthy(rid)
                     counter == s.figure_counter + 1
                     hierarchical_num == _format_figure_number(s, counter)
                     s1 == IF numbered
                           THEN [s EXCEPT !.figure_counter = counter,
                                          !.figure_map = DictSet(@, rid.v, hierarchical_num)]
                           ELSE s
                     child1 == IF ~IsFigure(child) THEN child
                               ELSE IF numbered
                                    THEN [child EXCEPT !.number = Str(hierarchical_num)]
                                    ELSE [child EXCEPT !.number = Str(<< >>)]
                     r == _collect_figures_recursive(s1, child1)
                 IN Loop(r.self, Append(done, r.token), Tail(rest))
        l == Loop(self, << >>, token.children)
    IN [self |-> l.self, token |-> [token EXCEPT !.children = l.children]]

\* collect_figures without "self.figure_map = {}"
Mut_collect_figures_keep_map(self, doc) ==
    _collect_figures_recursive([self EXCEPT !.figure_counter = 0], doc)

\* collect_figures that also puts the margin counters back to 0
Mut_collect_figures_reset_margins(self, doc) ==
    _collect_figures_recursive(
        [self EXCEPT !.figure_counter = 0, !.figure_map = EmptyMap,
                     !.margin_id = 0, !.margin_anchor_id = 0], doc)

collect_figures(self, doc) ==
    _collect_figures_recursive(
        [self EXCEPT !.figure_counter = 0, !.figure_map = EmptyMap], doc)

-----------------------------------------------------------------------------
(* The rendering pass.  Every rule returns [out, self]: the fragment (None *)
(* when the rule returns None) and the renderer after the rule has run.    *)

NL == "\n"

INDENT == "                "

section_url == << "section.html" >>

table_alignment(a) ==
    CASE a = "l" -> << "left" >> [] a = "c" -> << "center" >> [] a = "r" -> << "right" >>

RECURSIVE join(_, _)
\* base.join(parts)
join(base, parts) ==
    IF parts = << >> THEN << >>
    ELSE IF Len(parts) = 1 THEN parts[1]
    ELSE parts[1] \o base \o join(base, Tail(parts))

RECURSIVE render(_, _)

RECURSIVE render_children(_, _)
\* [self.render(child) for child in token.children]
render_children(self, children) ==
    IF children = << >> THEN [outs |-> << >>, self |-> self]
    ELSE LET r == render(self, Head(children))
             rest == render_children(r.self, Tail(children))
         IN [outs |-> << r.out >> \o rest.outs, self |-> rest.self]

IsNotNone(x) == x.some

Unwrap(outs) == [i \in 1..Len(outs) |-> outs[i].v]

\* render_inner that joins a None child as an empty fragment instead of dropping it
Mut_render_inner_no_filter(self, token, base) ==
    LET rc == render_children(self, token.children)
    IN [out |-> join(base, Unwrap(rc.outs)), self |-> rc.self]

\* Returns [out, self] with out a string.
render_inner(self, token, base) ==
    LET rc == render_children(self, token.children)
    IN [out |-> join(base, Unwrap(SelectSeq(rc.outs, IsNotNone))), self |-> rc.self]

render_block_comment(self, token) == [out |-> None, self |-> self]

render_raw_text(self, token) == [out |-> Str(token.content), self |-> self]

render_thematic_break(self, token) ==
    LET s1 == [self EXCEPT !.margin_anchor_id = @ + 1]
    IN [out |-> Str(<< "<a id=\"margin_" >> \o str(s1.margin_anchor_id) \o << "\"></a>" >>),
        self |-> s1]

\* The margin.html template is a collaborator: its output is kept as the
\* arguments it was given around the content.
render_tag_helper(type, content, mid, anchor) ==
    << "<margin type=", type, " id=" >> \o str(mid) \o << " anchor=" >> \o str(anchor)
    \o << ">" >> \o content \o << "</margin>" >>

\* self.render_tag_helper(type, <content>, self.margin_id, self.margin_anchor_id)
\* with the content already evaluated: the ids are read after it
CallTemplate(self, type, content) ==
    [out |-> Str(render_tag_helper(type, content, self.margin_id, self.margin_anchor_id)),
     self |-> [self EXCEPT !.calls = Append(@, [type |-> type, id |-> self.margin_id,
                                               anchor |-> self.margin_anchor_id])]]

document_render_tag(self, token) ==
    IF token.tagtype = "latexonly" THEN [out |-> Str(<< >>), self |-> self]
    ELSE IF token.tagtype = "webonly"
    THEN LET inner == render_inner(self, token, << >>)
         IN [out |-> Str(inner.out), self |-> inner.self]
    ELSE LET s1 == [self EXCEPT !.margin_id = @ + 1]
             type == CASE token.tagtype = "webmargin" -> "margin"
                       [] token.tagtype = "webtip" -> "tip"
                       [] token.tagtype = "webindepth" -> "indepth"
                       [] OTHER -> token.tagtype
             inner == render_inner(s1, token, << >>)
         IN CallTemplate(inner.self, type, inner.out)

slide_render_tag(self, token) ==
    LET inner == render_inner(self, token, << >>)
        wrap(open, close) ==
            [out |-> Str(<< open, NL >> \o inner.out \o << NL, close, NL >>),
             self |-> inner.self]
    IN CASE token.tagtype = "fragment" -> wrap("<div class=\"fragment\">", "</div>")
         [] token.tagtype = "left" -> wrap("<div id=\"left\">", "</div>")
         [] token.tagtype = "right" -> wrap("<div id=\"right\">", "</div>")
         [] token.tagtype = "note" -> wrap("<aside class=\"notes\">", "</aside>")
         [] OTHER -> [out |-> Str(<< >>), self |-> self]

render_tag(self, token) ==
    IF self.mode = "slide" THEN slide_render_tag(self, token)
    ELSE document_render_tag(self, token)

RECURSIVE qso_turns(_, _, _)
\* the loop over token.children of render_qso: [out, self] with out the string built
qso_turns(self, children, slide) ==
    IF children = << >> THEN [out |-> << >>, self |-> self]
    ELSE LET child == Head(children)
             direction == IF child.received THEN "other" ELSE "own"
             fade == IF child.received THEN "fragment fade-left" ELSE "fragment fade-right"
             inner == render_inner(self, child, << >>)
             open == IF slide THEN << "<div class=\"qso_", direction, " ", fade, "\">" >>
                     ELSE << "<div class=\"qso_", direction, "\">" >>
             rest == qso_turns(inner.self, Tail(children), slide)
         IN [out |-> open \o inner.out \o << "</div>", NL >> \o rest.out, self |-> rest.self]

document_render_qso(self, token) ==
    LET s1 == [self EXCEPT !.margin_id = @ + 1]
        qso == qso_turns(s1, token.children, FALSE)
    IN CallTemplate(qso.self, "qso", qso.out)

slide_render_qso(self, token) ==
    LET qso == qso_turns(self, token.children, TRUE)
    IN [out |-> Str(<< "<div class=\"qso r-fit-text\">", NL >> \o qso.out \o << "</div>", NL >>),
        self |-> qso.self]

render_qso(self, token) ==
    IF self.mode = "slide" THEN slide_render_qso(self, token)
    ELSE document_render_qso(self, token)

\* self.figure_map.setdefault(token.first, "?") for self.figure_map.get(token.first, "?")
Mut_render_references_setdefault(self, token) ==
    LET figure_num == DictGet(self.figure_map, token.first, << "?" >>)
    IN [out |-> Str(<< "<a href=\"" >> \o section_url \o << "#ref_" >> \o token.first
                    \o << "\"", " onclick=\"highlightRef('" >> \o token.first
                    \o << "');\">" >> \o figure_num \o << "</a>" >>),
        self |-> [self EXCEPT !.figure_map = DictSet(@, token.first, figure_num)]]

render_references(self, token) ==
    LET figure_num == DictGet(self.figure_map, token.first, << "?" >>)
    IN [out |-> Str(<< "<a href=\"" >> \o section_url \o << "#ref_" >> \o token.first
                    \o << "\"", " onclick=\"highlightRef('" >> \o token.first
                    \o << "');\">" >> \o figure_num \o << "</a>" >>),
        self |-> self]

render_document(self, token) ==
    LET inner == render_inner(self, token, << NL >>)
    IN [out |-> Str(IF inner.out # << >> THEN inner.out \o << NL >> ELSE << >>),
        self |-> inner.self]

render_img_helper(url, alt_text) ==
    << NL, INDENT, "<img src=\"" >> \o url \o << "\" alt=\"" >> \o alt_text
    \o << "\">", NL, INDENT >>

render_figure_link_helper(self, url, text) ==
    IF self.mode = "slide" THEN text
    ELSE << NL, INDENT, "<a href=\"" >> \o url \o << "\">" >> \o text
         \o << "</a>", NL, INDENT >>

render_figure_helper(ref, text, number, alt_text, css_class, content) ==
    << NL, INDENT, "<figure class=\"", css_class, "\" id=\"ref_" >> \o ref
    \o << "\" name=\"" >> \o ref \o << "\">", NL, INDENT, "    " >> \o content
    \o << NL, INDENT, "    ", "<figcaption>Abbildung " >> \o number \o << ": " >> \o text
    \o << "</figcaption>", NL, INDENT, "</figure>", NL, INDENT >>

\* render_picture and render_photo, with no picture_handler or photo_handler
\* configured (alt_text stays "")
render_figure(self, token, dir, ext, css_class) ==
    LET alt_text == << >>
        url == << dir >> \o token.id \o << ext >>
        img_text == render_img_helper(url, alt_text)
        content == render_figure_link_helper(self, url, img_text)
    IN [out |-> Str(render_figure_helper(token.ref.v, token.text, token.number.v,
                                         alt_text, css_class, content)),
        self |-> self]

render_picture(self, token) == render_figure(self, token, "pictures/", ".svg", "picture")

render_photo(self, token) == render_figure(self, token, "photos/", ".png", "photo")

render_table(self, token) ==
    LET table_attrs == IF Truthy(token.name)
                       THEN << " id=\"ref_" >> \o token.name.v \o << "\" name=\"" >>
                            \o token.name.v \o << "\"" >>
                       ELSE << >>
        inner == render_inner(self, token, << >>)
        caption_text == IF Truthy(token.number)
                        THEN << "Tabelle " >> \o token.number.v \o << ": " >> \o token.caption
                        ELSE token.caption
        caption == IF token.caption # << >>
                   THEN << "<caption>" >> \o caption_text \o << "</caption>", NL >>
                   ELSE << >>
    IN [out |-> Str(<< "<table class=\"table table-hover\"" >> \o table_attrs
                    \o << ">", NL >> \o inner.out \o caption \o << "</table>" >>),
        self |-> inner.self]

render_table_row(self, token) ==
    LET inner == render_inner(self, token, << >>)
    IN [out |-> Str(<< "<tr>", NL >> \o inner.out \o << "</tr>", NL >>), self |-> inner.self]

render_table_cell(self, token) ==
    LET type == IF token.header THEN "th" ELSE "td"
        style == IF token.alignment \in {"l", "c", "r"}
                 THEN << " style=\"text-align: " >> \o table_alignment(token.alignment)
                      \o << ";\"" >>
                 ELSE << >>
        inner == render_inner(self, token, << >>)
    IN [out |-> Str(<< "<", type >> \o style \o << ">" >> \o inner.out
                    \o << "</", type, ">", NL >>),
        self |-> inner.self]

render_table_body(self, token) ==
    IF Len(token.children) = 0 THEN [out |-> None, self |-> self]
    ELSE LET type == IF token.header THEN "thead" ELSE "tbody"
             inner == render_inner(self, token, << >>)
         IN [out |-> Str(<< "<", type, ">", NL >> \o inner.out \o << "</", type, ">", NL >>),
             self |-> inner.self]

\* self.render(token): the rule of the token's kind
render(self, token) ==
    CASE token.kind = "Document" -> render_document(self, token)
      [] token.kind = "RawText" -> render_raw_text(self, token)
      [] token.kind = "BlockComment" -> render_block_comment(self, token)
      [] token.kind = "ThematicBreak" -> render_thematic_break(self, token)
      [] token.kind = "Tag" -> render_tag(self, token)
      [] token.kind = "Qso" -> render_qso(self, token)
      [] token.kind = "References" -> render_references(self, token)
      [] token.kind = "Picture" -> render_picture(self, token)
      [] token.kind = "Photo" -> render_photo(self, token)
      [] token.kind = "Table" -> render_table(self, token)
      [] token.kind = "TableHeader" -> render_table_row(self, token)
      [] token.kind = "TableRow" -> render_table_row(self, token)
      [] token.kind = "TableCell" -> render_table_cell(self, token)
      [] token.kind = "TableBody" -> render_table_body(self, token)

-----------------------------------------------------------------------------
(* The documents the parser hands over, and the constructor's arguments *)

SeqsUpTo(S, n) == UNION {[1..k -> S] : k \in 0..n}

NestedTable ==
    Table(<< "t2" >>, << "inner" >>,
          << TableBody(FALSE, << TableRow(<< TableCell(FALSE, "",
                 << Picture(<< "8" >>, << "p2" >>, << "nested" >>) >>) >>) >>) >>)

FigureBlocks ==
    { Picture(<< "7" >>, << "p1" >>, << "a picture" >>),
      Table(<< "t1" >>, << "a table" >>, << >>),
      References(<< "p1" >>),
      Table(<< >>, << "unnamed" >>, << >>),
      Tag("webonly", << Photo(<< "9" >>, << >>, << "a photo" >>), NestedTable >>) }

\* the scenario Document[Picture p1, Table t1, Reference p1]
ScenarioDocument ==
    Document(<< Picture(<< "7" >>, << "p1" >>, << "a picture" >>),
                Table(<< "t1" >>, << "a table" >>, << >>),
                References(<< "p1" >>) >>)

FigureDocs ==
    {Document(c) : c \in SeqsUpTo(FigureBlocks, MaxChildren)} \cup {ScenarioDocument}

RenderBlocks ==
    { ThematicBreak,
      BlockComment,
      Tag("latexonly", << RawText(<< "x" >>) >>),
      Tag("note",
          << Table(<< "t1" >>, << "c" >>,
                   << TableBody(TRUE, << TableRow(<< TableCell(TRUE, "c",
                          << RawText(<< "h" >>) >>) >>) >>),
                      TableBody(FALSE, << >>) >>),
             BlockComment,
             Tag("webtip", << RawText(<< "b" >>) >>) >>),
      Qso(<< QsoTurn(FALSE, << RawText(<< "cq" >>) >>),
             QsoTurn(TRUE, << References(<< "zz" >>) >>) >>) }

RenderDocs == {Document(c) : c \in SeqsUpTo(RenderBlocks, MaxRenderChildren)}

RefIds == { << "p1" >>, << "zz" >> }

\* (mode, edition, chapter, section) given to the constructor
Contexts ==
    { << "document", None, None, None >>,
      << "document", Str(<< "3" >>), Str(<< "2" >>), Str(<< "1" >>) >>,
      << "document", Str(<< >>), Str(<< "2" >>), Str(<< "1" >>) >>,
      << "document", Str(<< "3" >>), None, Str(<< "1" >>) >>,
      << "slide", Str(<< "3" >>), Str(<< "2" >>), Str(<< "1" >>) >> }

RenderContexts ==
    { << "document", None, None, None >>,
      << "slide", None, None, None >> }

-----------------------------------------------------------------------------
(* The state machine *)

\* the renderer's fields after a method has run
Store(s) ==
    /\ mode' = s.mode
    /\ edition' = s.edition
    /\ chapter' = s.chapter
    /\ section' = s.section
    /\ figure_map' = s.figure_map
    /\ figure_counter' = s.figure_counter
    /\ margin_id' = s.margin_id
    /\ margin_anchor_id' = s.margin_anchor_id
    /\ template_calls' = s.calls

InitWith(ctxs) ==
    \E ctx \in ctxs :
        LET s == Construct(ctx[1], ctx[2], ctx[3], ctx[4])
        IN /\ mode = s.mode
           /\ edition = s.edition
           /\ chapter = s.chapter
           /\ section = s.section
           /\ figure_map = s.figure_map
           /\ figure_counter = s.figure_counter
           /\ margin_id = s.margin_id
           /\ margin_anchor_id = s.margin_anchor_id
           /\ template_calls = s.calls
           /\ document = Document(<< >>)
           /\ result = None
           /\ lastOp = "init"
           /\ ctor = [edition |-> ctx[2], chapter |-> ctx[3], section |-> ctx[4]]
           /\ pass_run = FALSE
           /\ earlier_pass = FALSE

Init == InitWith(Contexts)

InitRender == InitWith(RenderContexts)

\* The caller parses the next document: the first one, or the next one once a
\* pass has run on the one before.
Parse(d) ==
    /\ lastOp \in {"init", "collect_figures", "render"}
    /\ document' = d
    /\ result' = None
    /\ lastOp' = "parse"
    /\ pass_run' = FALSE
    /\ earlier_pass' = (earlier_pass \/ pass_run)
    /\ template_calls' = << >>
    /\ UNCHANGED << mode, edition, chapter, section, figure_map, figure_counter,
                    margin_id, margin_anchor_id, ctor >>

\* renderer.collect_figures(document)
CollectFigures ==
    LET r == collect_figures(Self, document)
    IN /\ Store(r.self)
       /\ document' = r.token
       /\ result' = None
       /\ lastOp' = "collect_figures"
       /\ pass_run' = TRUE
       /\ UNCHANGED << ctor, earlier_pass >>

RECURSIVE Preorder(_)
\* the tokens below token, in pre-order
Preorder(token) ==
    LET RECURSIVE Each(_)
        Each(cs) == IF cs = << >> THEN << >>
                    ELSE << Head(cs) >> \o Preorder(Head(cs)) \o Each(Tail(cs))
    IN Each(token.children)

HasNumber(token) == token.kind \in {"Picture", "Photo"} => token.number.some

\* render_picture and render_photo read token.number, which only the numbering
\* pass is known to set: a document with a Picture or Photo is rendered after it.
Renderable(doc) == SelectSeq(Preorder(doc), HasNumber) = Preorder(doc)

WithinMargin(s) == s.margin_id <= MaxMargin /\ s.margin_anchor_id <= MaxMargin

\* renderer.render(document)
Render ==
    /\ Renderable(document)
    /\ LET r == render(Self, document)
       IN /\ WithinMargin(r.self)
          /\ Store(r.self)
          /\ result' = r.out
    /\ lastOp' = "render"
    /\ UNCHANGED << document, ctor, pass_run, earlier_pass >>

\* renderer.render(token) of a single Reference token
RenderReference(id) ==
    /\ LET r == render(Self, References(id))
       IN /\ Store(r.self)
          /\ result' = r.out
    /\ lastOp' = "render_references"
    /\ UNCHANGED << document, ctor, pass_run, earlier_pass >>

Next ==
    \/ \E d \in FigureDocs : Parse(d)
    \/ CollectFigures
    \/ Render
    \/ \E id \in RefIds : RenderReference(id)

Spec == Init /\ [][Next]_vars

NextRender ==
    \/ \E d \in RenderDocs : Parse(d)
    \/ CollectFigures
    \/ Render

SpecRender == InitRender /\ [][NextRender]_vars

-----------------------------------------------------------------------------
(* What the claims speak of *)

\* the reference identifier of a figure-bearing token: ref of a Picture or
\* Photo, name of a Table
Identifier(token) == IF token.kind = "Table" THEN token.name ELSE token.ref

HasIdentifier(token) == Identifier(token).some /\ Identifier(token).v # << >>

IsNumberedFigure(token) == IsFigure(token) /\ HasIdentifier(token)

IsUnnumberedFigure(token) == IsFigure(token) /\ ~HasIdentifier(token)

\* the figure-bearing tokens below the root that have an identifier, in pre-order
NumberedFigures(doc) == SelectSeq(Preorder(doc), IsNumberedFigure)

UnnumberedFigures(doc) == SelectSeq(Preorder(doc), IsUnnumberedFigure)

Range(seq) == {seq[i] : i \in 1..Len(seq)}

RECURSIVE Unannotated(_)
\* the token as the parser made it: no number set anywhere
Unannotated(token) ==
    [token EXCEPT !.number = None,
                  !.children = [i \in 1..Len(token.children) |-> Unannotated(token.children[i])]]

\* the first index j >= i with s[j] = atom, 0 when there is none
IndexFrom(s, i, atom) ==
    LET found == {j \in i..Len(s) : s[j] = atom}
    IN IF found = {} THEN 0 ELSE CHOOSE j \in found : \A l \in found : j <= l

RECURSIVE LinksFrom(_, _)
LinksFrom(s, i) ==
    LET a == IndexFrom(s, i, "#ref_")
        q == IndexFrom(s, a, "\"")
        o == IndexFrom(s, q, "');\">")
        e == IndexFrom(s, o, "</a>")
    IN IF a = 0 THEN << >>
       ELSE << [target |-> SubSeq(s, a + 1, q - 1), text |-> SubSeq(s, o + 1, e - 1)] >>
            \o LinksFrom(s, e + 1)

\* the hyperlinks of References in a rendered string: target identifier and link text
Links(s) == LinksFrom(s, 1)

\* a renderer just constructed with this one's mode, edition, chapter and section
Fresh == [Self EXCEPT !.figure_map = EmptyMap, !.figure_counter = 0,
                      !.margin_id = 0, !.margin_anchor_id = 0]

-----------------------------------------------------------------------------
(* C1: after collect_figures the figures with an identifier are numbered in *)
(* pre-order at every depth: the k-th of them has the number of counter     *)
(* value k, and figure_counter ends at their count.                         *)
C1_PreorderNumbering ==
    lastOp = "collect_figures" =>
        LET figs == NumberedFigures(document)
        IN /\ figure_counter = Len(figs)
           /\ \A k \in 1..Len(figs) : figs[k].number = Str(_format_figure_number(Self, k))

\* a collected document with three numbered figures, one nested inside another
C1_Witness ==
    /\ lastOp = "collect_figures"
    /\ Len(NumberedFigures(document)) >= 3
    /\ \E t \in Range(NumberedFigures(document)) : NumberedFigures(t) # << >>
    /\ NumberedFigures(document)[1].kind = "Table"

(* C2: collect_figures rebuilds counter and map from scratch: whatever ran  *)
(* before on the instance, after collect_figures(D) the map, the counter    *)
(* and the annotations are those a fresh renderer with the same edition,    *)
(* chapter and section produces for D.                                      *)
C2_RebuiltFromScratch ==
    lastOp = "collect_figures" =>
        LET fresh == collect_figures(Fresh, Unannotated(document))
        IN /\ figure_map = fresh.self.figure_map
           /\ figure_counter = fresh.self.figure_counter
           /\ document = fresh.token

\* collect_figures on a reused instance, for a document without the key p1
C2_Witness ==
    /\ lastOp = "collect_figures"
    /\ earlier_pass
    /\ figure_map # EmptyMap
    /\ << "p1" >> \notin DOMAIN figure_map

(* C3: after collect_figures every Picture, Photo or Table whose identifier *)
(* is empty or absent has the number "", is not counted, and has no key in  *)
(* the figure map: the keys are the identifiers of the numbered figures.    *)
C3_NoIdentifierNoNumber ==
    lastOp = "collect_figures" =>
        /\ \A t \in Range(UnnumberedFigures(document)) : t.number = Str(<< >>)
        /\ figure_counter = Len(NumberedFigures(document))
        /\ DOMAIN figure_map = {Identifier(t).v : t \in Range(NumberedFigures(document))}
        /\ << >> \notin DOMAIN figure_map

\* a collected document with a Photo without ref, a Table without name and a numbered figure
C3_Witness ==
    /\ lastOp = "collect_figures"
    /\ \E t \in Range(UnnumberedFigures(document)) : t.kind = "Photo"
    /\ \E t \in Range(UnnumberedFigures(document)) : t.kind = "Table"
    /\ NumberedFigures(document) # << >>

(* C4 as claimed: the number of counter value n is                          *)
(* "{edition}-{chapter}.{section}.{n}" when edition, chapter and section    *)
(* are all supplied at construction and the bare counter otherwise; the     *)
(* scenario with edition 3, chapter 2, section 1 yields {p1: 3-2.1.1,       *)
(* t1: 3-2.1.2} and the Reference resolves to 3-2.1.1.                      *)
ClaimedNumber(n) ==
    IF ctor.edition.some /\ ctor.chapter.some /\ ctor.section.some
    THEN ctor.edition.v \o << "-" >> \o ctor.chapter.v \o << "." >> \o ctor.section.v
         \o << "." >> \o str(n)
    ELSE str(n)

ScenarioContext ==
    ctor = [edition |-> Str(<< "3" >>), chapter |-> Str(<< "2" >>), section |-> Str(<< "1" >>)]

ScenarioRendered ==
    /\ lastOp = "render"
    /\ pass_run
    /\ Unannotated(document) = ScenarioDocument
    /\ ScenarioContext

ScenarioResolved ==
    /\ figure_map = [k \in {<< "p1" >>, << "t1" >>} |->
                        IF k = << "p1" >> THEN << "3", "-", "2", ".", "1", ".", "1" >>
                        ELSE << "3", "-", "2", ".", "1", ".", "2" >>]
    /\ Links(result.v) = << [target |-> << "p1" >>,
                             text |-> << "3", "-", "2", ".", "1", ".", "1" >>] >>

C4_AsClaimed ==
    /\ lastOp = "collect_figures" =>
           \A k \in 1..Len(NumberedFigures(document)) :
               NumberedFigures(document)[k].number = Str(ClaimedNumber(k))
    /\ ScenarioRendered => ScenarioResolved

(* C4 amended: the hierarchical form is used when edition, chapter and      *)
(* section are all supplied and non-empty, with "S" appended to the edition *)
(* by the slide renderer; the bare counter when any of them is absent or    *)
(* empty.  The scenario holds as claimed on the document renderer.          *)
Given(x) == x.some /\ x.v # << >>

AmendedNumber(n) ==
    IF Given(ctor.edition) /\ Given(ctor.chapter) /\ Given(ctor.section)
    THEN ctor.edition.v \o (IF mode = "slide" THEN << "S" >> ELSE << >>) \o << "-" >>
         \o ctor.chapter.v \o << "." >> \o ctor.section.v \o << "." >> \o str(n)
    ELSE str(n)

C4_AmendedNumberFormat ==
    /\ lastOp = "collect_figures" =>
           \A k \in 1..Len(NumberedFigures(document)) :
               NumberedFigures(document)[k].number = Str(AmendedNumber(k))
    /\ (ScenarioRendered /\ mode = "document") => ScenarioResolved

\* the scenario document numbered and rendered by the document renderer with 3, 2, 1
C4_Witness == ScenarioRendered /\ mode = "document" /\ result.some

(* C5 as claimed: a Reference rendered before the numbering pass has run    *)
(* for the current document shows "?", whatever ran on the instance before. *)
RenderedReferences == lastOp \in {"render", "render_references"} /\ result.some

C5_AsClaimed ==
    (RenderedReferences /\ ~pass_run) =>
        \A i \in 1..Len(Links(result.v)) : Links(result.v)[i].text = << "?" >>

(* C5 amended: on an instance on which collect_figures has never run a      *)
(* Reference shows "?"; on a reused instance, before the pass has run for   *)
(* the current document, it is resolved against the figure map the earlier  *)
(* document left: "?" only when that map lacks the identifier.              *)
C5_UnknownBeforeAnyPass ==
    /\ (lastOp \in {"render", "render_references"} /\ ~pass_run /\ ~earlier_pass) =>
           /\ result.some
           /\ \A i \in 1..Len(Links(result.v)) : Links(result.v)[i].text = << "?" >>
    /\ (RenderedReferences /\ ~pass_run) =>
           \A i \in 1..Len(Links(result.v)) :
               Links(result.v)[i].text =
                   DictGet(figure_map, Links(result.v)[i].target, << "?" >>)

\* a document with a Reference rendered by a renderer that never ran the pass
C5_Witness ==
    /\ lastOp = "render"
    /\ ~pass_run
    /\ ~earlier_pass
    /\ Links(result.v) # << >>

(* C6: rendering a Reference whose target is not a key of the figure map    *)
(* returns the hyperlink with the text "?" and leaves the figure map, the   *)
(* figure counter and the margin counters as they were.                     *)
C6_UnknownReferencePlaceholder ==
    [][\A id \in RefIds :
          (RenderReference(id) /\ id \notin DOMAIN figure_map) =>
              /\ result'.some
              /\ Links(result'.v) = << [target |-> id, text |-> << "?" >>] >>
              /\ figure_map' = figure_map
              /\ figure_counter' = figure_counter
              /\ margin_id' = margin_id
              /\ margin_anchor_id' = margin_anchor_id]_vars

\* a Reference to an identifier the non-empty figure map lacks has been rendered
C6_Witness ==
    /\ lastOp = "render_references"
    /\ figure_map # EmptyMap
    /\ Len(Links(result.v)) = 1
    /\ Links(result.v)[1].target \notin DOMAIN figure_map
    /\ Links(result.v)[1].text = << "?" >>

Suppressed(token) ==
    \/ token.kind = "BlockComment"
    \/ token.kind = "TableBody" /\ token.children = << >>

NotSuppressed(token) == ~Suppressed(token)

RECURSIVE Pruned(_)
Pruned(token) ==
    LET kept == SelectSeq(token.children, NotSuppressed)
    IN [token EXCEPT !.children = [i \in 1..Len(kept) |-> Pruned(kept[i])]]

C8_SuppressedChildrenDropped ==
    [][lastOp' = "render" =>
          LET pruned == render(Self, Pruned(document))
          IN /\ result' = pruned.out
             /\ margin_id' = pruned.self.margin_id
             /\ margin_anchor_id' = pruned.self.margin_anchor_id
             /\ template_calls' = pruned.self.calls
             /\ \/ result'.v = << >>
                \/ /\ Len(result'.v) >= 2
                   /\ result'.v[Len(result'.v)] = NL
             /\ (\A i \in 1..Len(document.children) : Suppressed(document.children[i]))
                    => result' = Str(<< >>)]_vars

\* a rendered document with a BlockComment before a block that holds a Table
\* with an empty TableBody
C8_Witness ==
    /\ lastOp = "render"
    /\ Len(document.children) = 2
    /\ document.children[1].kind = "BlockComment"
    /\ \E t \in Range(Preorder(document)) : t.kind = "TableBody" /\ t.children = << >>
    /\ result.v # << >>

(* C9 as claimed: in document mode a latexonly Tag among the children of    *)
(* the Document contributes nothing, neither characters nor a separator:    *)
(* the output is that of the document without the Tag, and the margin id    *)
(* does not advance.                                                        *)
NotLatexonly(token) == ~(token.kind = "Tag" /\ token.tagtype = "latexonly")

WithoutLatexonly(doc) == [doc EXCEPT !.children = SelectSeq(@, NotLatexonly)]

C9_AsClaimed ==
    [][(lastOp' = "render" /\ mode = "document") =>
          LET without == render(Self, WithoutLatexonly(document))
          IN /\ result' = without.out
             /\ margin_id' = without.self.margin_id]_vars

(* C10 as claimed: in document mode the margin ids handed to the template   *)
(* during one render are pairwise distinct and increasing, nested Tags      *)
(* included.                                                                *)
C10_AsClaimed ==
    (lastOp = "render" /\ mode = "document") =>
        \A i, j \in 1..Len(template_calls) :
            i # j => template_calls[i].id # template_calls[j].id

====
